---- MODULE Spec2Model ----
(***************************************************************************)
(* Model of egfscheduler/numberjack_scheduler.py: numberjack_scheduler     *)
(* builds a constraint model over the tasks of the given work units, lets  *)
(* the solver pick an assignment, and writes (start, end, resources) back  *)
(* to task.scheduled.  The solver is modelled by what its contract says:   *)
(* it returns some assignment satisfying every constraint added to the     *)
(* model (a minimal-C_max one when it runs to completion under Minimize),  *)
(* or reports failure when there is none or when its time limit ran out.   *)
(*                                                                         *)
(* A variable that no constraint of the model mentions (the slot of an      *)
(* exclusive resource, the slot of a pooled resource with one user) is     *)
(* read back as some value of its domain.                                  *)
(*                                                                         *)
(* An optional value (due_time, scheduled_start) is a set with at most one *)
(* element: {} is Python's None.  task.scheduled is a partial function:    *)
(* a task outside DOMAIN scheduled has scheduled = None.  The list of work *)
(* units of a call is a set: no work unit is listed twice.                 *)
(***************************************************************************)
EXTENDS Integers, Sequences, FiniteSets, TLC

VARIABLES
    work_units,   \* name -> [tasks, constraints, parents, due_time, priority, scheduled_start]
    tasks,        \* task -> [duration, resources]
    capacity,     \* resource -> capacity
    upper_bound,  \* the horizon the caller passes
    scheduled,    \* task -> [start, end, resources], for the tasks that have one
    call          \* the last call: [status, called, optimize, timed_out]

vars == <<work_units, tasks, capacity, upper_bound, scheduled, call>>

\* ------------------------------------------------------------------ bounds
\* the horizon (upper_bound) of the calls on the short-task work units
MaxTime == 3

\* the capacity of the pooled resource
MaxCapacity == 2

\* the duration of the long task; the horizon of its calls is one more
LongDuration == 1002

\* ------------------------------------------------------- program constants
\* lower_bound = 0
lower_bound == 0

\* the factor 1000 of 1000 * work_unit.priority
TardinessScale == 1000

\* the upper bound of nj.Variable(lower_bound, 1500000, 'C_max')
CMaxUpperBound == 1500000

\* ----------------------------------------------------------------- helpers
Max(a, b) == IF a >= b THEN a ELSE b

Range(s) == {s[i] : i \in DOMAIN s}

First(s) == s[1]

Last(s) == s[Len(s)]

\* all_tasks = [task for work_unit in work_units for task in work_unit.tasks]
all_tasks(wu, called) == {t \in UNION {Range(wu[w].tasks) : w \in called} : TRUE}

\* all_resources = set of the resources of all tasks
all_resources(tk, T) == {r \in UNION {tk[t].resources : t \in T} : TRUE}

\* nj.Task(upper_bound, task.duration): earliest start 0, latest end
\* upper_bound, so a start in [0, upper_bound - duration]
TaskDomain(tk, t, ub) == lower_bound .. (ub - tk[t].duration)

\* nj_tasks: one start variable per task; the set of all their valuations
RECURSIVE nj_tasks(_, _, _)
nj_tasks(tk, T, ub) ==
    IF T = {} THEN {<<>>}
    ELSE LET t == CHOOSE x \in T : TRUE
         IN  {f @@ (t :> v) : f \in nj_tasks(tk, T \ {t}, ub), v \in TaskDomain(tk, t, ub)}

\* nj.Variable(1, resource.capacity) for each resource of one task
SlotDomain(tk, t) ==
    {k \in [tk[t].resources -> 1 .. MaxCapacity] : \A r \in tk[t].resources : k[r] <= capacity[r]}

\* nj_taskresources: one slot variable per (task, resource); all their valuations
RECURSIVE nj_taskresources(_, _)
nj_taskresources(tk, T) ==
    IF T = {} THEN {<<>>}
    ELSE LET t == CHOOSE x \in T : TRUE
         IN  {f @@ (t :> k) : f \in nj_taskresources(tk, T \ {t}), k \in SlotDomain(tk, t)}

EndOf(tk, start, t) == start[t] + tk[t].duration

\* one interval fully precedes the other
Disjoint(tk, start, t, u) ==
    \/ EndOf(tk, start, t) <= start[u]
    \/ EndOf(tk, start, u) <= start[t]

\* ------------------------------------------------ the constraints of the model
\* mutant: the tasks need only start at different times
UnaryResourceByStart(tk, users, start) ==
    \A t \in users : \A u \in users \ {t} : start[t] # start[u]

\* nj.UnaryResource over the tasks requiring the resource: no two overlap
UnaryResource(tk, users, start) ==
    \A t \in users : \A u \in users \ {t} : Disjoint(tk, start, t, u)

\* mutant: two tasks that start at different times are taken not to overlap
PooledPairByStart(tk, start, slot, r, t, u) ==
    \/ start[t] # start[u]
    \/ slot[t][r] # slot[u][r]

\* Or([Or([t ends <= u starts, u ends <= t starts]), AllDiff([slot t, slot u])])
PooledPair(tk, start, slot, r, t, u) ==
    \/ Disjoint(tk, start, t, u)
    \/ slot[t][r] # slot[u][r]

\* for resource in all_resources: capacity == 1, the unary resource
ExclusiveResources(tk, T, start) ==
    \A r \in all_resources(tk, T) :
        capacity[r] = 1 =>
            UnaryResource(tk, {t \in T : r \in tk[t].resources}, start)

\* for resource in all_resources: else, every pair of itt.combinations(all_tasks, 2)
PooledResources(tk, T, start, slot) ==
    \A r \in all_resources(tk, T) :
        capacity[r] # 1 =>
            \A t \in T : \A u \in T \ {t} :
                (r \in tk[t].resources /\ r \in tk[u].resources)
                    => PooledPair(tk, start, slot, r, t, u)

\* mutant: the duration is left out of the chain constraint
ChainPairByStart(tk, start, t, next_task) == start[t] <= start[next_task]

\* nj_tasks[task] + task.duration <= nj_tasks[next_task]
ChainPair(tk, start, t, next_task) == EndOf(tk, start, t) <= start[next_task]

\* zip(work_unit.tasks, work_unit.tasks[1:]) for every work unit
Chains(wu, tk, called, start) ==
    \A w \in called : \A i \in 1 .. (Len(wu[w].tasks) - 1) :
        ChainPair(tk, start, wu[w].tasks[i], wu[w].tasks[i + 1])

\* A custom constraint builder applied to the work unit's task variables.  The
\* builders modelled are those of the source's comment: task i+1 starts at most
\* `gap` after task i completes.
ApplyConstraint(tk, start, c, ts) ==
    start[ts[c.after + 1]] <= EndOf(tk, start, ts[c.after]) + c.gap

\* constraint([nj_tasks[task] for task in work_unit.tasks])
CustomConstraints(wu, tk, called, start) ==
    \A w \in called : \A i \in DOMAIN wu[w].constraints :
        ApplyConstraint(tk, start, wu[w].constraints[i], wu[w].tasks)

\* mutant: the parent's first task instead of its last
PrecedesFirst(wu, tk, start, parent, w) ==
    EndOf(tk, start, First(wu[parent].tasks)) <= start[First(wu[w].tasks)]

\* nj_tasks[parent.tasks[-1]] + parent.tasks[-1].duration <= nj_tasks[work_unit.tasks[0]]
Precedes(wu, tk, start, parent, w) ==
    EndOf(tk, start, Last(wu[parent].tasks)) <= start[First(wu[w].tasks)]

Dependencies(wu, tk, called, start) ==
    \A w \in called : \A parent \in wu[w].parents : Precedes(wu, tk, start, parent, w)

\* mutant: the pin as a lower bound
PinnedAtLeast(wu, start, w) ==
    \A s \in wu[w].scheduled_start : start[First(wu[w].tasks)] >= s

\* nj.Eq([nj_tasks[work_unit.tasks[0]], work_unit.scheduled_start])
Pinned(wu, start, w) ==
    \A s \in wu[w].scheduled_start : start[First(wu[w].tasks)] = s

Pins(wu, called, start) == \A w \in called : Pinned(wu, start, w)

\* nj_tasks[work_unit.tasks[-1]] + work_unit.tasks[-1].duration
Completion(wu, tk, start, w) == EndOf(tk, start, Last(wu[w].tasks))

\* optimize=False: completion < due_time for every work unit with a due time
Deadlines(wu, tk, called, start) ==
    \A w \in called : \A d \in wu[w].due_time : Completion(wu, tk, start, w) < d

\* nj.Max([ZERO, completion - due_time]) * (1000 * priority)
Penalty(wu, tk, start, w) ==
    IF wu[w].due_time = {} THEN 0
    ELSE LET d == CHOOSE x \in wu[w].due_time : TRUE
         IN  Max(0, Completion(wu, tk, start, w) - d) * (TardinessScale * wu[w].priority)

\* the first sum of the C_max constraint
RECURSIVE SumPenalty(_, _, _, _)
SumPenalty(wu, tk, start, W) ==
    IF W = {} THEN 0
    ELSE LET w == CHOOSE x \in W : TRUE
         IN  Penalty(wu, tk, start, w) + SumPenalty(wu, tk, start, W \ {w})

\* the second sum of the C_max constraint
RECURSIVE SumCompletion(_, _, _, _)
SumCompletion(wu, tk, start, W) ==
    IF W = {} THEN 0
    ELSE LET w == CHOOSE x \in W : TRUE
         IN  Completion(wu, tk, start, w) + SumCompletion(wu, tk, start, W \ {w})

\* the right-hand side of C_max > ...
Cost(wu, tk, called, start) ==
    SumPenalty(wu, tk, start, called) + SumCompletion(wu, tk, start, called)

\* C_max = nj.Variable(lower_bound, 1500000) with C_max > cost: its least value
LeastCMax(wu, tk, called, start) == Max(lower_bound, Cost(wu, tk, called, start) + 1)

\* some value of C_max satisfies the constraint
CMaxExists(wu, tk, called, start) == LeastCMax(wu, tk, called, start) <= CMaxUpperBound

\* The constraints on the start times that both modes add.
HardConstraints(wu, tk, called, T, start) ==
    /\ ExclusiveResources(tk, T, start)
    /\ Chains(wu, tk, called, start)
    /\ CustomConstraints(wu, tk, called, start)
    /\ Dependencies(wu, tk, called, start)
    /\ Pins(wu, called, start)

\* if optimize: the C_max constraint; else: the deadlines
TimeConstraints(wu, tk, called, T, start, optimize) ==
    /\ HardConstraints(wu, tk, called, T, start)
    /\ IF optimize THEN CMaxExists(wu, tk, called, start)
                   ELSE Deadlines(wu, tk, called, start)

\* The valuations of the slot variables that go with the start times s.
SlotsFor(tk, T, s) == {k \in nj_taskresources(tk, T) : PooledResources(tk, T, s, k)}

\* The valuations of the start variables that satisfy the model.
StartsFor(wu, tk, called, T, ub, optimize) ==
    {s \in nj_tasks(tk, T, ub) : TimeConstraints(wu, tk, called, T, s, optimize)}

AssignmentsOf(tk, T, starts) ==
    UNION {{[start |-> s, slot |-> k] : k \in SlotsFor(tk, T, s)} : s \in starts}

\* Every assignment [start, slot] that satisfies the model.
Solutions(wu, tk, called, ub, optimize) ==
    AssignmentsOf(tk, all_tasks(wu, called),
                  StartsFor(wu, tk, called, all_tasks(wu, called), ub, optimize))

\* the least and the greatest of a set of numbers
Least(values) == CHOOSE c \in values : \A d \in values : c <= d

Greatest(values) == CHOOSE c \in values : \A d \in values : c >= d

\* the assignments whose least C_max is `value`
WithCMax(wu, tk, called, sols, value) ==
    {x \in sols : LeastCMax(wu, tk, called, x.start) = value}

\* mutant: no objective is given to the solver
NoObjective(wu, tk, called, sols) == sols

\* mutant: nj.Maximize in place of nj.Minimize
Maximize(wu, tk, called, sols) ==
    WithCMax(wu, tk, called, sols,
             Greatest({LeastCMax(wu, tk, called, x.start) : x \in sols}))

\* nj.Minimize(C_max), the solver run to completion
Minimize(wu, tk, called, sols) ==
    WithCMax(wu, tk, called, sols,
             Least({LeastCMax(wu, tk, called, x.start) : x \in sols}))

\* solver.solve() under the objective of the mode: run to completion it returns
\* a minimal assignment under Minimize; stopped by the time limit, or with no
\* objective, any assignment it has found.
Solve(wu, tk, called, sols, optimize, timed_out) ==
    IF optimize /\ ~timed_out /\ sols # {}
    THEN Minimize(wu, tk, called, sols)
    ELSE sols

\* task.scheduled = (start, end, resources) for every task of the call
Materialize(tk, sched, T, sol) ==
    [t \in (DOMAIN sched) \cup T |->
        IF t \in T
        THEN [start |-> sol.start[t],
              end |-> sol.start[t] + tk[t].duration,
              resources |-> sol.slot[t]]
        ELSE sched[t]]

\* mutant: the tasks of the call are reset before the solver runs
RaisedAfterReset(sched, T) == [t \in (DOMAIN sched) \ T |-> sched[t]]

\* the call raised before the write-back loop
Raised(sched, T) == sched

\* nj_tasks[parent_work_unit.tasks[-1]] of a parent that is not in the call
MissingParent(wu, called) == \E w \in called : ~(wu[w].parents \subseteq called)

CallRecord(status, called, optimize, timed_out) ==
    [status |-> status, called |-> called, optimize |-> optimize, timed_out |-> timed_out]

\* ------------------------------------------------------------- the operation
\* result = solver.solve(); raise if result is False; else write the schedule
SolveAndWrite(called, optimize, T, sols) ==
    \E timed_out \in BOOLEAN :
        \/ /\ sols = {} \/ timed_out
           /\ call' = CallRecord("ValueError", called, optimize, timed_out)
           /\ scheduled' = Raised(scheduled, T)
        \/ \E sol \in Solve(work_units, tasks, called, sols, optimize, timed_out) :
           /\ call' = CallRecord("ok", called, optimize, timed_out)
           /\ scheduled' = Materialize(tasks, scheduled, T, sol)

numberjack_scheduler(called, optimize) ==
    /\ UNCHANGED <<work_units, tasks, capacity, upper_bound>>
    /\ IF MissingParent(work_units, called)
       THEN /\ call' = CallRecord("KeyError", called, optimize, FALSE)
            /\ scheduled' = Raised(scheduled, all_tasks(work_units, called))
       ELSE SolveAndWrite(called, optimize, all_tasks(work_units, called),
                          Solutions(work_units, tasks, called, upper_bound, optimize))

\* ------------------------------------------------------------------- inputs
NoConstraint == <<>>

\* "task 2 starts at most `gap` after task 1 completes"
MaxGap(i, g) == [after |-> i, gap |-> g]

WorkUnit(ts, cs, ps, due, prio, pin) ==
    [tasks |-> ts, constraints |-> cs, parents |-> ps,
     due_time |-> due, priority |-> prio, scheduled_start |-> pin]

Task(d, rs) == [duration |-> d, resources |-> rs]

\* The resources of a1, a2 and b1, and the duration of b1.
Layouts ==
    { [a1 |-> {"R"}, a2 |-> {"R"}, b1 |-> {"R"}, db |-> 1],
      [a1 |-> {"R"}, a2 |-> {"Q"}, b1 |-> {"R"}, db |-> 2] }

DueTimes == {{}, {1}, {MaxTime}}

Priorities == {0, 1, 1500}

\* The resources: R and Q are exclusive, P is pooled.
Capacities == [R |-> 1, Q |-> 1, P |-> MaxCapacity]

\* Two work units A = <<a1, a2>> and B = <<b1>> on the exclusive resources; B
\* may depend on A and may be pinned.
InitChain ==
    \E layout \in Layouts, due \in DueTimes, prio \in Priorities,
       pb \in {{}, {"A"}}, pin \in {{}, {1}},
       cs \in {NoConstraint, <<MaxGap(1, 0)>>} :
        /\ due # {1} => prio = 1
        /\ work_units =
              [A |-> WorkUnit(<<"a1", "a2">>, cs, {}, due, prio, {}),
               B |-> WorkUnit(<<"b1">>, NoConstraint, pb, {}, 1, pin)]
        /\ tasks = [a1 |-> Task(1, layout.a1), a2 |-> Task(1, layout.a2),
                    b1 |-> Task(layout.db, layout.b1)]
        /\ capacity = Capacities
        /\ upper_bound = MaxTime

\* Three single-task work units sharing the pooled resource, A and B pinned;
\* C may depend on both A and B, and A on C.
InitPool ==
    \E pa \in {{}, {"C"}}, pc \in {{}, {"A", "B"}}, pin \in {{0}, {1}} :
        /\ work_units =
              [A |-> WorkUnit(<<"a1">>, NoConstraint, pa, {}, 1, {0}),
               B |-> WorkUnit(<<"b1">>, NoConstraint, {}, {}, 1, pin),
               C |-> WorkUnit(<<"c1">>, NoConstraint, pc, {}, 1, {})]
        /\ tasks = [a1 |-> Task(2, {"P"}), b1 |-> Task(2, {"P"}), c1 |-> Task(1, {"P"})]
        /\ capacity = Capacities
        /\ upper_bound = MaxTime

\* Two work units on the exclusive resource with a horizon that just fits
\* them: A, one long task with a due time it can only meet by going first,
\* and B, one short task.
InitLong ==
    \E prio \in {0, 1}, due \in {{}, {LongDuration}} :
        /\ due = {} => prio = 1
        /\ work_units =
              [A |-> WorkUnit(<<"a1">>, NoConstraint, {}, due, prio, {}),
               B |-> WorkUnit(<<"b1">>, NoConstraint, {}, {}, 1, {})]
        /\ tasks = [a1 |-> Task(LongDuration, {"R"}), b1 |-> Task(1, {"R"})]
        /\ capacity = Capacities
        /\ upper_bound = LongDuration + 1

NoCall == CallRecord("none", {}, FALSE, FALSE)

Init ==
    /\ InitChain \/ InitPool
    /\ scheduled = <<>>
    /\ call = NoCall

\* The lists of work units a call is made with: all of them, or A alone.
CallLists == {DOMAIN work_units, {"A"}}

Next ==
    \E called \in CallLists, optimize \in BOOLEAN :
        numberjack_scheduler(called, optimize)

Spec == Init /\ [][Next]_vars

\* The same operation on the long-task work units.
InitLongTask ==
    /\ InitLong
    /\ scheduled = <<>>
    /\ call = NoCall

SpecLong == InitLongTask /\ [][Next]_vars

\* ------------------------------------------------------- the resolved schedule
\* the last call returned the work units
Succeeded == call.status = "ok"

\* the last call raised
Failed == call.status \in {"ValueError", "KeyError"}

\* the tasks of the work units of the last call
CalledTasks == all_tasks(work_units, call.called)

\* the resolved [start, end) intervals of two tasks overlap
Overlap(t, u) ==
    /\ scheduled[t].start < scheduled[u].end
    /\ scheduled[u].start < scheduled[t].end

\* the resolved end of a task is its start plus its duration
ResolvedEnd(t) == scheduled[t].start + tasks[t].duration

\* the pairs of distinct tasks of the last call that both require r
SharingPairs(r) ==
    {p \in CalledTasks \X CalledTasks :
        p[1] # p[2] /\ r \in tasks[p[1]].resources /\ r \in tasks[p[2]].resources}

\* C1: after a successful call, any two distinct tasks of the call that both
\* require a resource of capacity 1 have resolved intervals [start, end),
\* end = start + duration, that do not overlap.
C1_ExclusiveNoOverlap ==
    Succeeded =>
        \A r \in DOMAIN capacity : capacity[r] = 1 =>
            \A p \in SharingPairs(r) :
                /\ scheduled[p[1]].end = ResolvedEnd(p[1])
                /\ ~Overlap(p[1], p[2])

\* a successful call with two tasks of different work units back to back on an
\* exclusive resource
C1_Witness ==
    /\ Succeeded
    /\ \E r \in DOMAIN capacity : capacity[r] = 1 /\
          \E p \in SharingPairs(r) :
              /\ p[1] \in Range(work_units["A"].tasks)
              /\ p[2] \in Range(work_units["B"].tasks)
              /\ scheduled[p[1]].end = scheduled[p[2]].start

\* C2: after a successful call, any two distinct tasks of the call that both
\* require a resource of capacity > 1 either have resolved intervals that do
\* not overlap or have different resolved slots for it, and every resolved
\* slot for such a resource lies in [1, capacity].
C2_PooledSlots ==
    Succeeded =>
        \A r \in DOMAIN capacity : capacity[r] > 1 =>
            /\ \A p \in SharingPairs(r) :
                  \/ ~Overlap(p[1], p[2])
                  \/ scheduled[p[1]].resources[r] # scheduled[p[2]].resources[r]
            /\ \A t \in CalledTasks : r \in tasks[t].resources =>
                  /\ scheduled[t].resources[r] >= 1
                  /\ scheduled[t].resources[r] <= capacity[r]

\* a successful call with two overlapping tasks in different slots of a pooled
\* resource that a third task of the call requires too
C2_Witness ==
    /\ Succeeded
    /\ \E r \in DOMAIN capacity : capacity[r] > 1 /\
          \E p \in SharingPairs(r) :
              /\ Overlap(p[1], p[2])
              /\ scheduled[p[1]].resources[r] # scheduled[p[2]].resources[r]
              /\ \E t \in CalledTasks \ {p[1], p[2]} : r \in tasks[t].resources

\* C3: after a successful call, in every work unit of the call each task's
\* resolved end is at most the resolved start of the next task of the list.
C3_ChainOrder ==
    Succeeded =>
        \A w \in call.called : \A i \in 1 .. (Len(work_units[w].tasks) - 1) :
            ResolvedEnd(work_units[w].tasks[i]) <= scheduled[work_units[w].tasks[i + 1]].start

\* a successful call on a work unit of two tasks whose tasks do not share a
\* resource
C3_Witness ==
    /\ Succeeded
    /\ \E w \in call.called :
          /\ Len(work_units[w].tasks) = 2
          /\ tasks[work_units[w].tasks[1]].resources # tasks[work_units[w].tasks[2]].resources

C4_WitnessChainParent ==
    /\ Succeeded
    /\ \E w \in call.called : \E parent \in work_units[w].parents :
          Len(work_units[parent].tasks) = 2

\* C5: after a successful call, in either mode, the first task of every work
\* unit of the call that has a scheduled_start starts exactly there.
C5_PinExact ==
    Succeeded =>
        \A w \in call.called : \A s \in work_units[w].scheduled_start :
            scheduled[First(work_units[w].tasks)].start = s

\* a successful optimize-mode call with a work unit pinned later than the start
\* of the horizon
C5_Witness ==
    /\ Succeeded
    /\ call.optimize
    /\ \E w \in call.called : \E s \in work_units[w].scheduled_start : s > lower_bound

\* a successful feasibility-mode call with a pinned work unit
C5_WitnessFeasibility ==
    /\ Succeeded
    /\ ~call.optimize
    /\ \E w \in call.called : work_units[w].scheduled_start # {}

\* ---------------------------------------------------- the cost of a schedule
\* the resolved start times of the tasks of the last call
Resolved == [t \in CalledTasks |-> scheduled[t].start]

\* completion_time of a work unit under the start times
CompletionTime(start, w) ==
    start[Last(work_units[w].tasks)] + tasks[Last(work_units[w].tasks)].duration

\* max(0, completion_time - due_time), 0 for a work unit with no due time
Tardiness(start, w) ==
    IF \E d \in work_units[w].due_time : CompletionTime(start, w) > d
    THEN CompletionTime(start, w) - (CHOOSE d \in work_units[w].due_time : TRUE)
    ELSE 0

\* the sum over the work units W of priority * tardiness
RECURSIVE WeightedTardiness(_, _)
WeightedTardiness(start, W) ==
    IF W = {} THEN 0
    ELSE LET w == CHOOSE x \in W : TRUE
         IN  work_units[w].priority * Tardiness(start, w) + WeightedTardiness(start, W \ {w})

\* the sum over the work units W of completion_time
RECURSIVE TotalCompletion(_, _)
TotalCompletion(start, W) ==
    IF W = {} THEN 0
    ELSE LET w == CHOOSE x \in W : TRUE
         IN  CompletionTime(start, w) + TotalCompletion(start, W \ {w})

\* 1000 * weighted tardiness + total completion time
ScheduleCost(start, W) == 1000 * WeightedTardiness(start, W) + TotalCompletion(start, W)

\* The start times within the horizon for which the resource, chain, custom,
\* dependency and pin constraints of a call on `called` can be satisfied.
Satisfying(called) ==
    {s \in nj_tasks(tasks, all_tasks(work_units, called), upper_bound) :
        /\ HardConstraints(work_units, tasks, called, all_tasks(work_units, called), s)
        /\ SlotsFor(tasks, all_tasks(work_units, called), s) # {}}

\* the last call ran in optimize mode, the solver to completion, and succeeded
OptimalCall == Succeeded /\ call.optimize /\ ~call.timed_out

HasDueTime(W) == \E w \in W : work_units[w].due_time # {}

MinimalAmong(start, W, others) ==
    \A s \in others :
        /\ ScheduleCost(start, W) <= ScheduleCost(s, W)
        /\ ~HasDueTime(W) => TotalCompletion(start, W) <= TotalCompletion(s, W)

\* C7: an optimize-mode call that succeeds with the solver run to optimality
\* returns a schedule whose cost, 1000 * priority * tardiness summed over the
\* due-dated work units plus the completion times of all work units, is
\* minimal among the assignments within the horizon that satisfy the
\* resource, chain, custom, dependency and pin constraints; with no due
\* dates it minimizes the total completion time.
C7_OptimizeMinimal ==
    OptimalCall => MinimalAmong(Resolved, call.called, Satisfying(call.called))

\* an optimal call with a due-dated work unit that is late, where another
\* satisfying assignment costs strictly more
C7_Witness ==
    /\ OptimalCall
    /\ WeightedTardiness(Resolved, call.called) > 0
    /\ \E s \in Satisfying(call.called) :
          ScheduleCost(s, call.called) > ScheduleCost(Resolved, call.called)

\* an optimal call with no due dates, where another satisfying assignment has
\* a greater total completion time
C7_WitnessNoDueTime ==
    /\ OptimalCall
    /\ ~HasDueTime(call.called)
    /\ \E s \in Satisfying(call.called) :
          TotalCompletion(s, call.called) > TotalCompletion(Resolved, call.called)

\* ------------------------------------------------------------ failed calls
\* every satisfying assignment leaves some due-dated work unit of the call
\* completing at or after its due time
DueTimeUnattainable(called) ==
    \A s \in Satisfying(called) :
        \E w \in called : \E d \in work_units[w].due_time : CompletionTime(s, w) >= d

\* a feasibility-mode call whose due times cannot be met raises "no solution"
UnattainableRaises ==
    (/\ call.status \in {"ok", "ValueError"}
     /\ ~call.optimize
     /\ DueTimeUnattainable(call.called)) => call.status = "ValueError"

\* a step that ends in a failed call leaves every scheduled field as it was
FailureKeepsScheduled == Failed' => scheduled' = scheduled

\* C6: a call that fails writes no scheduled field: a feasibility-mode call
\* with a due time no assignment can meet raises, and after any failed call
\* every task's scheduled is what it was before the call (empty when no
\* earlier call succeeded, as scheduled starts empty).
C6_FailureWritesNothing == []UnattainableRaises /\ [][FailureKeepsScheduled]_vars

\* a feasibility-mode call that failed on an unattainable due time, after an
\* earlier call had scheduled the tasks
C6_Witness ==
    /\ call.status = "ValueError"
    /\ ~call.optimize
    /\ ~call.timed_out
    /\ Satisfying(call.called) # {}
    /\ DueTimeUnattainable(call.called)
    /\ CalledTasks \subseteq DOMAIN scheduled

\* ------------------------------------------------- removing one constraint
WithoutConstraint(wu, w, i) ==
    [wu EXCEPT ![w].constraints =
        SubSeq(wu[w].constraints, 1, i - 1) \o SubSeq(wu[w].constraints, i + 1, Len(wu[w].constraints))]

WithoutParent(wu, w, parent) == [wu EXCEPT ![w].parents = wu[w].parents \ {parent}]

WithoutPin(wu, w) == [wu EXCEPT ![w].scheduled_start = {}]

WithoutResource(tk, t, r) == [tk EXCEPT ![t].resources = tk[t].resources \ {r}]

\* the least C_max of the assignments `answers`, when there is one
ObjectiveAtMost(wu, tk, called, answers, bound) ==
    /\ answers # {}
    /\ \A x \in answers : LeastCMax(wu, tk, called, x.start) <= bound

ObjectiveAtLeast(wu, tk, called, answers, bound) ==
    /\ answers # {}
    /\ \A x \in answers : LeastCMax(wu, tk, called, x.start) >= bound

\* what an optimize-mode call with the solver run to completion returns on the
\* entities wu, tk for the call list and horizon of the last call
OptimalAnswers(wu, tk) ==
    Solve(wu, tk, call.called,
          Solutions(wu, tk, call.called, upper_bound, TRUE), TRUE, FALSE)

\* the objective value of the schedule the last call returned
ResolvedObjective == LeastCMax(work_units, tasks, call.called, Resolved)

\* C8 as amended: in optimize mode the optimal objective value never
\* increases when one constraint (a custom constraint, a dependency edge, a
\* pin or a resource requirement) is removed from an input on which the call
\* succeeds.
C8_RemovalNeverIncreases ==
    OptimalCall =>
        /\ \A w \in call.called : \A i \in DOMAIN work_units[w].constraints :
              ObjectiveAtMost(WithoutConstraint(work_units, w, i), tasks, call.called,
                              OptimalAnswers(WithoutConstraint(work_units, w, i), tasks),
                              ResolvedObjective)
        /\ \A w \in call.called : \A parent \in work_units[w].parents :
              ObjectiveAtMost(WithoutParent(work_units, w, parent), tasks, call.called,
                              OptimalAnswers(WithoutParent(work_units, w, parent), tasks),
                              ResolvedObjective)
        /\ \A w \in call.called : work_units[w].scheduled_start # {} =>
              ObjectiveAtMost(WithoutPin(work_units, w), tasks, call.called,
                              OptimalAnswers(WithoutPin(work_units, w), tasks),
                              ResolvedObjective)
        /\ \A t \in CalledTasks : \A r \in tasks[t].resources :
              ObjectiveAtMost(work_units, WithoutResource(tasks, t, r), call.called,
                              OptimalAnswers(work_units, WithoutResource(tasks, t, r)),
                              ResolvedObjective)

\* C8 as stated: the optimal objective value after removing one constraint is
\* greater than or equal to the one with the constraint present.
C8_RemovalNeverDecreases ==
    OptimalCall =>
        /\ \A w \in call.called : \A i \in DOMAIN work_units[w].constraints :
              ObjectiveAtLeast(WithoutConstraint(work_units, w, i), tasks, call.called,
                               OptimalAnswers(WithoutConstraint(work_units, w, i), tasks),
                               ResolvedObjective)
        /\ \A w \in call.called : \A parent \in work_units[w].parents :
              ObjectiveAtLeast(WithoutParent(work_units, w, parent), tasks, call.called,
                               OptimalAnswers(WithoutParent(work_units, w, parent), tasks),
                               ResolvedObjective)
        /\ \A w \in call.called : work_units[w].scheduled_start # {} =>
              ObjectiveAtLeast(WithoutPin(work_units, w), tasks, call.called,
                               OptimalAnswers(WithoutPin(work_units, w), tasks),
                               ResolvedObjective)
        /\ \A t \in CalledTasks : \A r \in tasks[t].resources :
              ObjectiveAtLeast(work_units, WithoutResource(tasks, t, r), call.called,
                               OptimalAnswers(work_units, WithoutResource(tasks, t, r)),
                               ResolvedObjective)

\* an optimal call on work units with a pin whose removal strictly lowers the
\* optimal objective value
C8_Witness ==
    /\ OptimalCall
    /\ \E w \in call.called :
          /\ work_units[w].scheduled_start # {}
          /\ \E x \in OptimalAnswers(WithoutPin(work_units, w), tasks) :
                LeastCMax(WithoutPin(work_units, w), tasks, call.called, x.start)
                    < ResolvedObjective

\* ------------------------------------------------ tardiness and the C_max bound
\* C9: every schedule that minimizes the optimize-mode objective also
\* minimizes the weighted tardiness among the satisfying assignments.
C9_TardinessDominates ==
    OptimalCall =>
        \A s \in Satisfying(call.called) :
            WeightedTardiness(Resolved, call.called) <= WeightedTardiness(s, call.called)

\* C10: in optimize mode due dates never cause failure: when some assignment
\* within the horizon satisfies the resource, chain, custom, dependency and
\* pin constraints, the call (the solver run to completion) succeeds and sets
\* scheduled on every task.
C10_DueTimesNeverFail ==
    (/\ call.status \in {"ok", "ValueError"}
     /\ call.optimize
     /\ ~call.timed_out
     /\ Satisfying(call.called) # {})
        => (Succeeded /\ CalledTasks \subseteq DOMAIN scheduled)

====
